---- MODULE Spec2Model ----
(***************************************************************************)
(* One invocation of one of the three CLI commands of command/:            *)
(*   KVExportCommand.Run, KVDeleteCommand.Run (kv_export.go) and           *)
(*   SnapshotRestoreCommand.Run (snapshot_restore.go).                     *)
(* Strings that the code inspects (keys) are sequences of one-character    *)
(* strings; byte slices are sequences of 0..255.  The store, the file      *)
(* system and api.NewClient are the environment: their answers are         *)
(* nondeterministic.                                                       *)
(***************************************************************************)
EXTENDS Integers, Sequences, FiniteSets, TLC

VARIABLES cmd, pc, parseErr, args, flags, envToken, key, conf, calls,
          result, exported, ui, exit, file, opens, closes

vars == <<cmd, pc, parseErr, args, flags, envToken, key, conf, calls,
          result, exported, ui, exit, file, opens, closes>>

(* ------------------------------ bounds -------------------------------- *)

\* longest key given on the command line
MaxKeyLen == 2
\* most positional arguments given
MaxArgs == 2
\* largest -modify-index given
MaxIndex == 2
\* longest value (in bytes) of a pair the store returns
MaxValueLen == 2

(* ------------------------------ inputs -------------------------------- *)

Chars == {"/", "a"}
Keys == UNION {[1..n -> Chars] : n \in 0..MaxKeyLen}
\* zero or one argument: every key; more than one: only the count matters
ArgLists == {<<>>} \cup {<<k>> : k \in Keys}
              \cup {[i \in 1..n |-> <<"a">>] : n \in 2..MaxArgs}
Tokens == {"", "cli"}
EnvTokens == {"", "env"}
Datacenters == {"", "dc1"}
Bytes == {120, 255}
\* every short value over Bytes, and one complete three-byte group ("Man")
Values == UNION {[1..n -> Bytes] : n \in 0..MaxValueLen} \cup {<<77, 97, 110>>}
StoreKeys == <<(<<"a">>), (<<"a", "/", "b">>)>>
FlagValues == {0, 42}
\* error texts of the api client (transport failure, unexpected response)
StoreErrors == {"connection refused", "Unexpected response code: 500"}
NoErr == ""

DefaultFlags == [datacenter |-> "", token |-> "", stale |-> FALSE,
                 cas |-> FALSE, modifyIndex |-> 0, recurse |-> FALSE,
                 httpAddr |-> "127.0.0.1:8500"]

\* what the store can answer to List: pairs in key order, keys unique
KVPairs(k) == {[Key |-> k, Flags |-> f, Value |-> v] : f \in FlagValues, v \in Values}
ListResults == {<<>>}
                 \cup {<<p>> : p \in KVPairs(StoreKeys[1]) \cup KVPairs(StoreKeys[2])}
                 \cup {<<p, q>> : p \in KVPairs(StoreKeys[1]), q \in KVPairs(StoreKeys[2])}

NoConf == [Address |-> "", Token |-> "", Datacenter |-> ""]
NoResult == [err |-> NoErr, success |-> FALSE, pairs |-> <<>>]

(* --------------------------- pure helpers ----------------------------- *)

\* fmt.Sprintf: the rendered text, as the sequence of its pieces
Sprintf(pieces) == pieces

\* c.Ui.Error / c.Ui.Info
UiError(text) == [kind |-> "error", text |-> text]
UiInfo(text) == [kind |-> "info", text |-> text]

\* "if len(key) > 0 && key[0] == '/' { key = key[1:] }"
StripLeadingSlash(k) ==
    IF Len(k) > 0 /\ k[1] = "/" THEN SubSeq(k, 2, Len(k)) ELSE k

\* base64.StdEncoding
B64Alphabet ==
    << "A","B","C","D","E","F","G","H","I","J","K","L","M","N","O","P",
       "Q","R","S","T","U","V","W","X","Y","Z","a","b","c","d","e","f",
       "g","h","i","j","k","l","m","n","o","p","q","r","s","t","u","v",
       "w","x","y","z","0","1","2","3","4","5","6","7","8","9","+","/" >>
B64Char(i) == B64Alphabet[i + 1]

RECURSIVE EncodeToString(_)
EncodeToString(src) ==
    IF Len(src) = 0 THEN <<>>
    ELSE IF Len(src) = 1 THEN
        LET n == src[1] * 65536
        IN  <<B64Char(n \div 262144), B64Char((n \div 4096) % 64), "=", "=">>
    ELSE IF Len(src) = 2 THEN
        LET n == src[1] * 65536 + src[2] * 256
        IN  <<B64Char(n \div 262144), B64Char((n \div 4096) % 64),
              B64Char((n \div 64) % 64), "=">>
    ELSE
        LET n == src[1] * 65536 + src[2] * 256 + src[3]
        IN  <<B64Char(n \div 262144), B64Char((n \div 4096) % 64),
              B64Char((n \div 64) % 64), B64Char(n % 64)>>
            \o EncodeToString(SubSeq(src, 4, Len(src)))

\* toExportEntry with base64.RawStdEncoding: the padding is left out
toExportEntryUnpadded(pair) ==
    [Key |-> pair.Key, Flags |-> pair.Flags,
     Value |-> SelectSeq(EncodeToString(pair.Value), LAMBDA c : c # "=")]

toExportEntry(pair) ==
    [Key |-> pair.Key, Flags |-> pair.Flags, Value |-> EncodeToString(pair.Value)]

\* "for i, pair := range pairs { exported[i] = toExportEntry(pair) }"
ExportAll(pairs) == [i \in 1..Len(pairs) |-> toExportEntry(pairs[i])]

\* json.MarshalIndent of []*kvExportEntry, as the sequence of its tokens
RECURSIVE MarshalEntries(_)
MarshalEntries(es) ==
    IF Len(es) = 0 THEN <<>>
    ELSE <<"{", "\"key\":">> \o es[1].Key
         \o <<"\"flags\":", ToString(es[1].Flags), "\"value\":">> \o es[1].Value
         \o <<"}">> \o (IF Len(es) > 1 THEN <<",">> ELSE <<>>)
         \o MarshalEntries(Tail(es))
MarshalIndent(es) == <<"[">> \o MarshalEntries(es) \o <<"]">>

(* ------------------------- KVDeleteCommand.Run ------------------------ *)

\* MissingKey with the check skipped for compare-and-swap deletes
MissingKeyUnlessCas(k, f) == k = <<>> /\ ~f.recurse /\ ~f.cas

\* "if key == "" && !*recurse"
MissingKey(k, f) == k = <<>> /\ ~f.recurse

\* "if *cas && *modifyIndex == 0"
CasNeedsIndex(f) == f.cas /\ f.modifyIndex = 0

\* "if *modifyIndex != 0 && !*cas"
IndexWithoutCas(f) == f.modifyIndex # 0 /\ ~f.cas

\* CasAndRecurse with the test of -cas negated
CasAndRecurseNegated(f) == f.recurse /\ ~f.cas

\* "if *recurse && *cas"
CasAndRecurse(f) == f.recurse /\ f.cas

TooManyArguments(n) ==
    UiError(Sprintf(<<"Too many arguments (expected 1, got ", ToString(n), ")">>))

\* The argument switch and the validation rules, in the order of the code.
\* ret = 1: the command returns 1; ret = -1: it goes on to build the client.
KVDeleteValidate(a, f) ==
    IF Len(a) > 1
    THEN [key |-> <<>>, msgs |-> <<TooManyArguments(Len(a))>>, ret |-> 1]
    ELSE LET k == StripLeadingSlash(IF Len(a) = 0 THEN <<>> ELSE a[1])
             m3 == IF IndexWithoutCas(f)
                   THEN <<UiError(Sprintf(<<"Cannot specify -modify-index without -cas!">>))>>
                   ELSE <<>>
         IN  IF MissingKey(k, f)
             THEN [key |-> k, ret |-> 1,
                   msgs |-> <<UiError(Sprintf(<<"Error! Missing KEY argument">>))>>]
             ELSE IF CasNeedsIndex(f)
             THEN [key |-> k, ret |-> 1,
                   msgs |-> <<UiError(Sprintf(<<"Must specify -modify-index with -cas!">>))>>]
             ELSE IF CasAndRecurse(f)
             THEN [key |-> k, ret |-> 1,
                   msgs |-> m3 \o <<UiError(Sprintf(<<"Cannot specify both -cas and -recurse!">>))>>]
             ELSE [key |-> k, ret |-> -1, msgs |-> m3]

\* api.DefaultConfig(): the token it holds comes from the environment
DefaultConfig == [Address |-> "", Token |-> envToken, Datacenter |-> ""]

\* "if conf.Token == "" { conf.Token = *token }"
KVDeleteToken(c, token) == IF c.Token = "" THEN [c EXCEPT !.Token = token] ELSE c

\* "if *token != "" { conf.Token = *token }"
KVExportToken(c, token) == IF token # "" THEN [c EXCEPT !.Token = token] ELSE c

\* "if *token != "" { conf.Token = *token }"
SnapshotRestoreToken(c, token) == IF token # "" THEN [c EXCEPT !.Token = token] ELSE c

ConnectError(e) == UiError(Sprintf(<<"Error connecting to Consul agent: ", e>>))

StoreCall(op, k, index, dc, stale) ==
    [op |-> op, key |-> k, index |-> index, dc |-> dc, stale |-> stale,
     token |-> conf.Token]

\* "switch { case *recurse: ... case *cas: ... default: ... }"
KVDeleteDispatch(f, k) ==
    IF f.recurse THEN StoreCall("DeleteTree", k, 0, f.datacenter, FALSE)
    ELSE IF f.cas THEN StoreCall("DeleteCAS", k, f.modifyIndex, f.datacenter, FALSE)
    ELSE StoreCall("Delete", k, 0, f.datacenter, FALSE)

\* what the store can answer to each delete operation
DeleteResults(op) ==
    IF op = "DeleteCAS"
    THEN {[err |-> NoErr, success |-> TRUE, pairs |-> <<>>],
          [err |-> NoErr, success |-> FALSE, pairs |-> <<>>]}
         \cup {[err |-> e, success |-> FALSE, pairs |-> <<>>] : e \in StoreErrors}
    ELSE {[err |-> NoErr, success |-> TRUE, pairs |-> <<>>]}
         \cup {[err |-> e, success |-> FALSE, pairs |-> <<>>] : e \in StoreErrors}

\* CasRender without the "if !success" branch
CasRenderIgnoringSuccess(k, r) ==
    IF r.err # NoErr
    THEN [ret |-> 1,
          msg |-> UiError(Sprintf(<<"Error! Did not delete key ">> \o k \o <<": ", r.err>>))]
    ELSE [ret |-> 0, msg |-> UiInfo(Sprintf(<<"Success! Deleted key: ">> \o k))]

\* the messages and the exit code after DeleteCAS has returned
CasRender(k, r) ==
    IF r.err # NoErr
    THEN [ret |-> 1,
          msg |-> UiError(Sprintf(<<"Error! Did not delete key ">> \o k \o <<": ", r.err>>))]
    ELSE IF ~r.success
    THEN [ret |-> 1,
          msg |-> UiError(Sprintf(<<"Error! Did not delete key ">> \o k \o <<": ", "CAS failed">>))]
    ELSE [ret |-> 0, msg |-> UiInfo(Sprintf(<<"Success! Deleted key: ">> \o k))]

\* the messages and the exit code after the chosen delete operation returned
KVDeleteRender(op, k, r) ==
    IF op = "DeleteTree"
    THEN IF r.err # NoErr
         THEN [ret |-> 1,
               msg |-> UiError(Sprintf(<<"Error! Did not delete prefix ">> \o k \o <<": ", r.err>>))]
         ELSE [ret |-> 0,
               msg |-> UiInfo(Sprintf(<<"Success! Deleted keys with prefix: ">> \o k))]
    ELSE IF op = "DeleteCAS" THEN CasRender(k, r)
    ELSE IF r.err # NoErr
         THEN [ret |-> 1,
               msg |-> UiError(Sprintf(<<"Error deleting key ">> \o k \o <<": ", r.err>>))]
         ELSE [ret |-> 0, msg |-> UiInfo(Sprintf(<<"Success! Deleted key: ">> \o k))]

KVDeleteParse ==
    /\ pc = "idle"
    /\ cmd' = "delete"
    /\ \/ /\ parseErr' = TRUE
          /\ pc' = "done"
          /\ exit' = 1
          /\ UNCHANGED <<args, flags>>
       \/ \E a \in ArgLists, dc \in Datacenters, tk \in Tokens,
             c \in BOOLEAN, mi \in 0..MaxIndex, rec \in BOOLEAN :
            /\ args' = a
            /\ flags' = [DefaultFlags EXCEPT !.datacenter = dc, !.token = tk,
                            !.cas = c, !.modifyIndex = mi, !.recurse = rec]
            /\ parseErr' = FALSE
            /\ pc' = "parsed"
            /\ exit' = exit
    /\ UNCHANGED <<envToken, key, conf, calls, result, exported, ui, file, opens, closes>>

KVDeleteArgs ==
    /\ cmd = "delete" /\ pc = "parsed"
    /\ LET v == KVDeleteValidate(args, flags)
       IN  /\ key' = v.key
           /\ ui' = ui \o v.msgs
           /\ IF v.ret = 1
              THEN exit' = 1 /\ pc' = "done"
              ELSE exit' = exit /\ pc' = "connect"
    /\ UNCHANGED <<cmd, parseErr, args, flags, envToken, conf, calls, result,
                   exported, file, opens, closes>>

KVDeleteConnect ==
    /\ cmd = "delete" /\ pc = "connect"
    /\ conf' = KVDeleteToken([DefaultConfig EXCEPT !.Address = flags.httpAddr],
                             flags.token)
    /\ \/ \E e \in {"invalid address"} :
             /\ ui' = Append(ui, ConnectError(e))
             /\ exit' = 1
             /\ pc' = "done"
       \/ /\ pc' = "call"
          /\ UNCHANGED <<ui, exit>>
    /\ UNCHANGED <<cmd, parseErr, args, flags, envToken, key, calls, result,
                   exported, file, opens, closes>>

KVDeleteCall ==
    /\ cmd = "delete" /\ pc = "call"
    /\ calls' = Append(calls, KVDeleteDispatch(flags, key))
    /\ pc' = "await"
    /\ UNCHANGED <<cmd, parseErr, args, flags, envToken, key, conf, result,
                   exported, ui, exit, file, opens, closes>>

KVDeleteReturn ==
    /\ cmd = "delete" /\ pc = "await"
    /\ \E r \in DeleteResults(calls[Len(calls)].op) :
          LET out == KVDeleteRender(calls[Len(calls)].op, key, r)
          IN  /\ result' = r
              /\ ui' = Append(ui, out.msg)
              /\ exit' = out.ret
    /\ pc' = "done"
    /\ UNCHANGED <<cmd, parseErr, args, flags, envToken, key, conf, calls,
                   exported, file, opens, closes>>

(* ------------------------- KVExportCommand.Run ------------------------ *)

\* The argument switch and the stripping of the leading slash.
KVExportValidate(a) ==
    IF Len(a) > 1
    THEN [key |-> <<>>, msgs |-> <<TooManyArguments(Len(a))>>, ret |-> 1]
    ELSE [key |-> StripLeadingSlash(IF Len(a) = 0 THEN <<>> ELSE a[1]),
          msgs |-> <<>>, ret |-> -1]

\* the slice built, the message and the exit code after List has returned;
\* json.MarshalIndent cannot fail on strings and unsigned integers
KVExportRender(r) ==
    IF r.err # NoErr
    THEN [ret |-> 1, exported |-> <<>>,
          msg |-> UiError(Sprintf(<<"Error querying Consul agent: ", r.err>>))]
    ELSE [ret |-> 0, exported |-> ExportAll(r.pairs),
          msg |-> UiInfo(MarshalIndent(ExportAll(r.pairs)))]

KVExportParse ==
    /\ pc = "idle"
    /\ cmd' = "export"
    /\ \/ /\ parseErr' = TRUE
          /\ pc' = "done"
          /\ exit' = 1
          /\ UNCHANGED <<args, flags>>
       \/ \E a \in ArgLists, dc \in Datacenters, tk \in Tokens, st \in BOOLEAN :
            /\ args' = a
            /\ flags' = [DefaultFlags EXCEPT !.datacenter = dc, !.token = tk,
                            !.stale = st]
            /\ parseErr' = FALSE
            /\ pc' = "parsed"
            /\ exit' = exit
    /\ UNCHANGED <<envToken, key, conf, calls, result, exported, ui, file, opens, closes>>

KVExportArgs ==
    /\ cmd = "export" /\ pc = "parsed"
    /\ LET v == KVExportValidate(args)
       IN  /\ key' = v.key
           /\ ui' = ui \o v.msgs
           /\ IF v.ret = 1
              THEN exit' = 1 /\ pc' = "done"
              ELSE exit' = exit /\ pc' = "connect"
    /\ UNCHANGED <<cmd, parseErr, args, flags, envToken, conf, calls, result,
                   exported, file, opens, closes>>

KVExportConnect ==
    /\ cmd = "export" /\ pc = "connect"
    /\ conf' = KVExportToken([DefaultConfig EXCEPT !.Address = flags.httpAddr],
                             flags.token)
    /\ \/ \E e \in {"invalid address"} :
             /\ ui' = Append(ui, ConnectError(e))
             /\ exit' = 1
             /\ pc' = "done"
       \/ /\ pc' = "call"
          /\ UNCHANGED <<ui, exit>>
    /\ UNCHANGED <<cmd, parseErr, args, flags, envToken, key, calls, result,
                   exported, file, opens, closes>>

KVExportList ==
    /\ cmd = "export" /\ pc = "call"
    /\ calls' = Append(calls, StoreCall("List", key, 0, flags.datacenter, flags.stale))
    /\ pc' = "await"
    /\ UNCHANGED <<cmd, parseErr, args, flags, envToken, key, conf, result,
                   exported, ui, exit, file, opens, closes>>

KVExportReturn ==
    /\ cmd = "export" /\ pc = "await"
    /\ \E r \in {[err |-> e, success |-> FALSE, pairs |-> <<>>] : e \in StoreErrors}
                \cup {[err |-> NoErr, success |-> TRUE, pairs |-> ps] : ps \in ListResults} :
          LET out == KVExportRender(r)
          IN  /\ result' = r
              /\ exported' = out.exported
              /\ ui' = Append(ui, out.msg)
              /\ exit' = out.ret
    /\ pc' = "done"
    /\ UNCHANGED <<cmd, parseErr, args, flags, envToken, key, conf, calls,
                   file, opens, closes>>

(* ---------------------- SnapshotRestoreCommand.Run --------------------- *)

\* The argument switch: exactly one FILE argument.
SnapshotRestoreValidate(a) ==
    IF Len(a) = 0
    THEN [file |-> <<>>, ret |-> 1,
          msgs |-> <<UiError(Sprintf(<<"Missing FILE argument">>))>>]
    ELSE IF Len(a) = 1
    THEN [file |-> a[1], ret |-> -1, msgs |-> <<>>]
    ELSE [file |-> <<>>, msgs |-> <<TooManyArguments(Len(a))>>, ret |-> 1]

\* AfterOpen with the error of os.Open reported but not returned on
AfterOpenNoReturn(err) ==
    IF err # NoErr
    THEN [ret |-> -1, next |-> "call", file |-> "none",
          msgs |-> <<UiError(Sprintf(<<"Error opening snapshot file: ", err>>))>>]
    ELSE [ret |-> -1, next |-> "call", file |-> "open", msgs |-> <<>>]

\* "f, err := os.Open(file); if err != nil { ...; return 1 }; defer f.Close()"
AfterOpen(err) ==
    IF err # NoErr
    THEN [ret |-> 1, next |-> "done", file |-> "none",
          msgs |-> <<UiError(Sprintf(<<"Error opening snapshot file: ", err>>))>>]
    ELSE [ret |-> -1, next |-> "call", file |-> "open", msgs |-> <<>>]

\* AfterRestore with f.Close() called on the success path only, not deferred
AfterRestoreCloseOnSuccess(err) ==
    IF err # NoErr
    THEN [ret |-> 1, next |-> "done",
          msg |-> UiError(Sprintf(<<"Error restoring snapshot: ", err>>))]
    ELSE [ret |-> 0, next |-> "deferred", msg |-> UiInfo(Sprintf(<<"Restored snapshot">>))]

\* the message and the exit code after Restore has returned; the deferred
\* f.Close() runs before the command returns, on both paths
AfterRestore(err) ==
    IF err # NoErr
    THEN [ret |-> 1, next |-> "deferred",
          msg |-> UiError(Sprintf(<<"Error restoring snapshot: ", err>>))]
    ELSE [ret |-> 0, next |-> "deferred", msg |-> UiInfo(Sprintf(<<"Restored snapshot">>))]

SnapshotRestoreParse ==
    /\ pc = "idle"
    /\ cmd' = "restore"
    /\ \/ /\ parseErr' = TRUE
          /\ pc' = "done"
          /\ exit' = 1
          /\ UNCHANGED <<args, flags>>
       \/ \E a \in ArgLists, dc \in Datacenters, tk \in Tokens :
            /\ args' = a
            /\ flags' = [DefaultFlags EXCEPT !.datacenter = dc, !.token = tk]
            /\ parseErr' = FALSE
            /\ pc' = "parsed"
            /\ exit' = exit
    /\ UNCHANGED <<envToken, key, conf, calls, result, exported, ui, file, opens, closes>>

SnapshotRestoreArgs ==
    /\ cmd = "restore" /\ pc = "parsed"
    /\ LET v == SnapshotRestoreValidate(args)
       IN  /\ key' = v.file
           /\ ui' = ui \o v.msgs
           /\ IF v.ret = 1
              THEN exit' = 1 /\ pc' = "done"
              ELSE exit' = exit /\ pc' = "connect"
    /\ UNCHANGED <<cmd, parseErr, args, flags, envToken, conf, calls, result,
                   exported, file, opens, closes>>

SnapshotRestoreConnect ==
    /\ cmd = "restore" /\ pc = "connect"
    /\ conf' = SnapshotRestoreToken(
                  [DefaultConfig EXCEPT !.Datacenter = flags.datacenter,
                                        !.Address = flags.httpAddr],
                  flags.token)
    /\ \/ \E e \in {"invalid address"} :
             /\ ui' = Append(ui, ConnectError(e))
             /\ exit' = 1
             /\ pc' = "done"
       \/ /\ pc' = "open"
          /\ UNCHANGED <<ui, exit>>
    /\ UNCHANGED <<cmd, parseErr, args, flags, envToken, key, calls, result,
                   exported, file, opens, closes>>

SnapshotRestoreOpen ==
    /\ cmd = "restore" /\ pc = "open"
    /\ opens' = opens + 1
    /\ \E err \in {NoErr, "no such file or directory"} :
          LET o == AfterOpen(err)
          IN  /\ file' = o.file
              /\ ui' = ui \o o.msgs
              /\ pc' = o.next
              /\ exit' = IF o.ret = 1 THEN 1 ELSE exit
    /\ UNCHANGED <<cmd, parseErr, args, flags, envToken, key, conf, calls,
                   result, exported, closes>>

SnapshotRestoreCall ==
    /\ cmd = "restore" /\ pc = "call"
    /\ calls' = Append(calls, StoreCall("Restore", key, 0, conf.Datacenter, FALSE))
    /\ pc' = "await"
    /\ UNCHANGED <<cmd, parseErr, args, flags, envToken, key, conf, result,
                   exported, ui, exit, file, opens, closes>>

SnapshotRestoreReturn ==
    /\ cmd = "restore" /\ pc = "await"
    /\ \E e \in {NoErr} \cup StoreErrors :
          LET out == AfterRestore(e)
          IN  /\ result' = [err |-> e, success |-> e = NoErr, pairs |-> <<>>]
              /\ ui' = Append(ui, out.msg)
              /\ exit' = out.ret
              /\ pc' = out.next
    /\ UNCHANGED <<cmd, parseErr, args, flags, envToken, key, conf, calls,
                   exported, file, opens, closes>>

\* the deferred f.Close(), then the return to the caller
SnapshotRestoreClose ==
    /\ cmd = "restore" /\ pc = "deferred"
    /\ file' = "closed"
    /\ closes' = closes + 1
    /\ pc' = "done"
    /\ UNCHANGED <<cmd, parseErr, args, flags, envToken, key, conf, calls,
                   result, exported, ui, exit, opens>>

(* --------------------------- specification ---------------------------- *)

Init ==
    /\ cmd = "none"
    /\ pc = "idle"
    /\ parseErr = FALSE
    /\ args = <<>>
    /\ flags = DefaultFlags
    /\ envToken \in EnvTokens
    /\ key = <<>>
    /\ conf = NoConf
    /\ calls = <<>>
    /\ result = NoResult
    /\ exported = <<>>
    /\ ui = <<>>
    /\ exit = -1
    /\ file = "none"
    /\ opens = 0
    /\ closes = 0

Next ==
    \/ KVExportParse
    \/ KVExportArgs
    \/ KVExportConnect
    \/ KVExportList
    \/ KVExportReturn
    \/ KVDeleteParse
    \/ KVDeleteArgs
    \/ KVDeleteConnect
    \/ KVDeleteCall
    \/ KVDeleteReturn
    \/ SnapshotRestoreParse
    \/ SnapshotRestoreArgs
    \/ SnapshotRestoreConnect
    \/ SnapshotRestoreOpen
    \/ SnapshotRestoreCall
    \/ SnapshotRestoreReturn
    \/ SnapshotRestoreClose

Spec == Init /\ [][Next]_vars

(* ------------------------------ properties ---------------------------- *)

\* the flags and arguments have been parsed and validation has run
Validated == cmd # "none" /\ ~parseErr /\ pc \notin {"idle", "parsed"}

Returned == pc = "done"

HasError == \E i \in 1..Len(ui) : ui[i].kind = "error"

KeyOps == {"List", "Delete", "DeleteTree", "DeleteCAS"}

\* the key argument is absent, "" or "/"
EmptyKeyArgument ==
    \/ args = <<>>
    \/ Len(args) = 1 /\ (args[1] = <<>> \/ args[1] = <<"/">>)

WrongArgCount ==
    \/ cmd \in {"export", "delete"} /\ Len(args) > 1
    \/ cmd = "delete" /\ EmptyKeyArgument /\ ~flags.recurse
    \/ cmd = "restore" /\ Len(args) # 1

IllegalFlags ==
    /\ cmd = "delete"
    /\ \/ flags.cas /\ flags.modifyIndex = 0
       \/ flags.recurse /\ flags.cas
       \/ flags.modifyIndex # 0 /\ ~flags.cas

ArgumentError == WrongArgCount \/ IllegalFlags

\* C1: every argument error (wrong argument count, -cas without
\* -modify-index, -recurse with -cas, -modify-index without -cas) ends the
\* command with exit code 1 and an error message, and no store call is made.
C1_ArgumentErrorsFatal ==
    (Validated /\ ArgumentError) =>
        /\ Returned
        /\ exit = 1
        /\ HasError
        /\ calls = <<>>

\* C2: the key of every List, Delete, DeleteTree and DeleteCAS call never
\* begins with "/", and stripping it again leaves it unchanged.
C2_StoreKeyNormalized ==
    \A i \in 1..Len(calls) :
        calls[i].op \in KeyOps =>
            /\ Len(calls[i].key) = 0 \/ calls[i].key[1] # "/"
            /\ StripLeadingSlash(calls[i].key) = calls[i].key

MissingKeyMessage == UiError(<<"Error! Missing KEY argument">>)

\* C3: kv delete with an empty key (no argument, "" or "/") and without
\* -recurse returns 1 without a store call, whatever -cas and -modify-index
\* are, and the only message is "Missing KEY argument".
C3_MissingKeyExitsOne ==
    (cmd = "delete" /\ Validated /\ EmptyKeyArgument /\ ~flags.recurse) =>
        /\ Returned
        /\ exit = 1
        /\ calls = <<>>
        /\ ui = <<MissingKeyMessage>>

C3_Witness ==
    /\ cmd = "delete" /\ Returned /\ ~parseErr
    /\ args = <<(<<"/">>)>>
    /\ ~flags.recurse /\ flags.cas /\ flags.modifyIndex = 0
    /\ exit = 1
    /\ ui = <<MissingKeyMessage>>

\* C4: kv delete with -cas makes a store call only with a non-zero
\* -modify-index and without -recurse; otherwise it returns 1 with no store
\* call.  Every DeleteCAS call carries a non-zero index and no DeleteTree
\* call is made with -cas set.
C4_CasNeedsIndexAndNoRecurse ==
    (cmd = "delete" /\ Validated /\ flags.cas) =>
        /\ calls # <<>> => (flags.modifyIndex # 0 /\ ~flags.recurse)
        /\ (flags.modifyIndex = 0 \/ flags.recurse) =>
              (Returned /\ exit = 1 /\ calls = <<>>)
        /\ \A i \in 1..Len(calls) :
              /\ calls[i].op # "DeleteTree"
              /\ calls[i].op = "DeleteCAS"
              /\ calls[i].index = flags.modifyIndex
              /\ calls[i].index # 0

C4_Witness ==
    /\ cmd = "delete" /\ flags.cas /\ ~flags.recurse
    /\ Len(calls) = 1
    /\ calls[1].op = "DeleteCAS"
    /\ calls[1].index = MaxIndex

ConnectFailed == \E i \in 1..Len(ui) : ui[i] = ConnectError("invalid address")

OpenFailed == cmd = "restore" /\ opens > 0 /\ file = "none"

\* C5: a command that has returned made at most one store call: exactly one
\* when validation, client construction and the file open succeeded, none
\* otherwise; kv delete picks it by its flags, and a failed call returns 1.
C5_ExactlyOneStoreCall ==
    Returned =>
        /\ Len(calls) <= 1
        /\ Len(calls) = 1 <=>
              (~parseErr /\ ~ArgumentError /\ ~ConnectFailed /\ ~OpenFailed)
        /\ (cmd = "delete" /\ Len(calls) = 1) =>
              calls[1].op = (IF flags.recurse THEN "DeleteTree"
                             ELSE IF flags.cas THEN "DeleteCAS" ELSE "Delete")
        /\ (Len(calls) = 1 /\ result.err # NoErr) => exit = 1

CasErrorMessage ==
    UiError(<<"Error! Did not delete key ">> \o key \o <<": ", result.err>>)

CasFailedMessage ==
    UiError(<<"Error! Did not delete key ">> \o key \o <<": ", "CAS failed">>)

CasSuccessMessage == UiInfo(<<"Success! Deleted key: ">> \o key)

\* C6: after DeleteCAS, an error and a success=false answer both return 1,
\* with different messages (the error text, "CAS failed"); the command
\* returns 0 with "Success! Deleted key" only on no error and success=true.
C6_CasOutcomes ==
    (cmd = "delete" /\ Returned /\ Len(calls) = 1 /\ calls[1].op = "DeleteCAS") =>
        /\ result.err # NoErr =>
              /\ exit = 1
              /\ ui[Len(ui)] = CasErrorMessage
              /\ ui[Len(ui)] # CasFailedMessage
        /\ (result.err = NoErr /\ ~result.success) =>
              /\ exit = 1
              /\ ui[Len(ui)] = CasFailedMessage
        /\ exit = 0 <=> (result.err = NoErr /\ result.success)
        /\ exit = 0 => ui[Len(ui)] = CasSuccessMessage

C6_Witness ==
    /\ cmd = "delete" /\ Returned
    /\ Len(calls) = 1 /\ calls[1].op = "DeleteCAS"
    /\ result.err = NoErr /\ ~result.success
    /\ exit = 1

\* C7: snapshot restore calls Restore only after the file of its single
\* argument was opened; with zero or several arguments it returns 1 without
\* opening a file or calling the store, and when the open fails it returns 1
\* and Restore is never called.
C7_RestoreOnlyAfterOpen ==
    cmd = "restore" =>
        /\ calls # <<>> => (Len(args) = 1 /\ opens = 1 /\ file # "none")
        /\ (Validated /\ Len(args) # 1) =>
              (Returned /\ exit = 1 /\ opens = 0 /\ file = "none" /\ calls = <<>>)
        /\ OpenFailed => (Returned /\ exit = 1 /\ calls = <<>>)

C7_Witness ==
    /\ cmd = "restore" /\ Returned
    /\ Len(args) = 1
    /\ OpenFailed
    /\ exit = 1

\* C8: a snapshot file that was opened is closed exactly once by the time
\* the command returns, after a successful and after a failed Restore, and
\* it is never closed before Restore has returned.
C8_FileClosedOnce ==
    cmd = "restore" =>
        /\ closes <= 1
        /\ (Returned /\ opens > 0 /\ ~OpenFailed) => (file = "closed" /\ closes = 1)
        /\ file = "open" => closes = 0
        /\ closes > 0 => (Len(calls) = 1 /\ pc \notin {"call", "await"})

C8_Witness ==
    /\ cmd = "restore" /\ Returned
    /\ Len(calls) = 1 /\ result.err # NoErr
    /\ exit = 1
    /\ file = "closed" /\ closes = 1

B64Index(c) == CHOOSE i \in 0..63 : B64Alphabet[i + 1] = c

\* the bytes a padded base64 text stands for
RECURSIVE DecodeString(_)
DecodeString(s) ==
    IF Len(s) < 4 THEN <<>>
    ELSE LET n == B64Index(s[1]) * 262144 + B64Index(s[2]) * 4096
                  + (IF s[3] = "=" THEN 0 ELSE B64Index(s[3]) * 64)
                  + (IF s[4] = "=" THEN 0 ELSE B64Index(s[4]))
         IN  IF s[3] = "=" THEN <<n \div 65536>>
             ELSE IF s[4] = "=" THEN <<n \div 65536, (n \div 256) % 256>>
             ELSE <<n \div 65536, (n \div 256) % 256, n % 256>>
                  \o DecodeString(SubSeq(s, 5, Len(s)))

\* C9: when List succeeds, kv export returns 0 and the exported sequence has
\* one entry per pair, in the store's order, each with the pair's key and
\* flags and the base64 text of its value ("x" gives "eA=="); when List
\* fails nothing is exported and the command returns 1.
C9_ExportMirrorsPairs ==
    (cmd = "export" /\ Returned /\ Len(calls) = 1) =>
        IF result.err = NoErr
        THEN /\ exit = 0
             /\ Len(exported) = Len(result.pairs)
             /\ \A i \in 1..Len(result.pairs) :
                   /\ exported[i].Key = result.pairs[i].Key
                   /\ exported[i].Flags = result.pairs[i].Flags
                   /\ Len(exported[i].Value)
                         = 4 * ((Len(result.pairs[i].Value) + 2) \div 3)
                   /\ DecodeString(exported[i].Value) = result.pairs[i].Value
                   /\ result.pairs[i].Value = <<120>> =>
                         exported[i].Value = <<"e", "A", "=", "=">>
             /\ ui = <<UiInfo(MarshalIndent(exported))>>
        ELSE /\ exit = 1
             /\ exported = <<>>
             /\ \A i \in 1..Len(ui) : ui[i].kind = "error"

C9_Witness ==
    /\ cmd = "export" /\ Returned /\ exit = 0
    /\ Len(result.pairs) = 2
    /\ result.pairs[1].Value = <<120>>
    /\ result.pairs[2].Value = <<77, 97, 110>>
    /\ result.pairs[2].Flags = 42
    /\ Len(exported) = 2
    /\ exported[1].Value = <<"e", "A", "=", "=">>
    /\ exported[2].Value = <<"T", "W", "F", "u">>

\* C10: in every command, a non-empty -token is the token of the client that
\* makes the store call, whatever the default configuration holds; an empty
\* -token leaves the default configuration's token in place.
C10_TokenFlagWins ==
    \A i \in 1..Len(calls) :
        calls[i].token = (IF flags.token # "" THEN flags.token ELSE envToken)

====
